---- MODULE Spec2Model ----
(***************************************************************************)
(* Rustkov: a variable-order Markov chain chat engine.                     *)
(*                                                                         *)
(* The model follows src/src/brain.rs (Brain), src/src/brain_components.rs *)
(* (State, Transistion), src/src/enums.rs (StateElement, SentenceMarker)   *)
(* and src/src/config.rs (BrainConfig, SPLIT_CHARS).                       *)
(*                                                                         *)
(* A text line is a sequence of one-character strings.  A word is a        *)
(* non-empty sequence of characters.  The ChaCha8 generator is modelled as *)
(* a nondeterministic choice among the outcomes a draw can have.           *)
(***************************************************************************)
EXTENDS Integers, Sequences, FiniteSets, TLC

(***************************************************************************)
(* Bounds of the model.                                                    *)
(***************************************************************************)
\* how many times `ingest` may run in one behaviour
MaxIngests == 2
\* longest sentence (markers included) the extension loops may build
MaxSentenceLen == 5
\* largest max_ingestion_state_size a configuration may hold
MaxStateSize == 2
\* largest max_generation_state_size a configuration may hold
MaxGenSize == 3

(***************************************************************************)
(* enums.rs: StateElement and SentenceMarker.                              *)
(***************************************************************************)
Marker(m) == <<"Marker", <<m>>>>

Word(w) == <<"Word", w>>

Placeholder == Marker("Placeholder")

Start == Marker("Start")

End == Marker("End")

IsWord(e) == e[1] = "Word"

(***************************************************************************)
(* config.rs                                                               *)
(***************************************************************************)
SPLIT_CHARS == {" ", "\n"}

\* reply_rate in percent: 0 is 0.0, 50 is 0.5, 100 is 1.0
ReplyRates == {0, 50, 100}

Configs ==
    [ max_ingestion_state_size : 0..MaxStateSize,
      training : BOOLEAN,
      mute : BOOLEAN,
      reply_rate : ReplyRates,
      min_generation_state_size : 0..(MaxGenSize - 1),
      max_generation_state_size : 1..MaxGenSize ]

\* BrainConfig::get_state_range: the half-open range start..end
get_state_range(cfg) ==
    cfg.min_generation_state_size .. (cfg.max_generation_state_size - 1)

(***************************************************************************)
(* The text lines the callers supply.                                      *)
(***************************************************************************)
LineEmpty == <<>>

LineCat == <<"c", "a", "t">>

LineTheCatSat == <<"t", "h", "e", " ", "c", "a", "t", " ", "s", "a", "t">>

\* "Cat  Cat": upper-case letters, two spaces in a row, a repeated word
LineCatCat == <<"C", "a", "t", " ", " ", "C", "a", "t">>

Lines == {LineEmpty, LineCat, LineTheCatSat, LineCatCat}

(***************************************************************************)
(* str::to_lowercase, str::split, str::trim_end as used by brain.rs        *)
(***************************************************************************)
UpperToLower == ("C" :> "c") @@ ("A" :> "a") @@ ("T" :> "t") @@ ("S" :> "s")
                  @@ ("H" :> "h") @@ ("E" :> "e")

to_lowercase(line) ==
    [i \in 1..Len(line) |->
        IF line[i] \in DOMAIN UpperToLower THEN UpperToLower[line[i]] ELSE line[i]]

\* split(&SPLIT_CHARS): the pieces between separators; empty pieces are kept,
\* and the empty line gives one empty piece
RECURSIVE split(_)
split(line) ==
    IF \A i \in 1..Len(line) : line[i] \notin SPLIT_CHARS
    THEN <<line>>
    ELSE LET i == CHOOSE k \in 1..Len(line) :
                    /\ line[k] \in SPLIT_CHARS
                    /\ \A j \in 1..(k - 1) : line[j] \notin SPLIT_CHARS
         IN  <<SubSeq(line, 1, i - 1)>> \o split(SubSeq(line, i + 1, Len(line)))

WhiteSpace == {" ", "\n"}

RECURSIVE trim_end(_)
trim_end(line) ==
    IF line # <<>> /\ line[Len(line)] \in WhiteSpace
    THEN trim_end(SubSeq(line, 1, Len(line) - 1))
    ELSE line

(***************************************************************************)
(* brain_components.rs: Transistion                                        *)
(***************************************************************************)
EmptyTransistion == [prev |-> <<>>, next |-> <<>>]

\* increment_vec forgetting `exists`: the element is pushed even when the
\* list already holds it
increment_vec_AlwaysPush(working_vec, new_element) ==
    Append([i \in 1..Len(working_vec) |->
               IF working_vec[i][1] = new_element
               THEN <<working_vec[i][1], working_vec[i][2] + 1>>
               ELSE working_vec[i]],
           <<new_element, 1>>)

\* increment_vec with the `*occurence += 1` left out
increment_vec_NoIncrement(working_vec, new_element) ==
    IF \E i \in 1..Len(working_vec) : working_vec[i][1] = new_element
    THEN working_vec
    ELSE Append(working_vec, <<new_element, 1>>)

\* the loop of lines 31-42 on one list: every entry equal to new_element is
\* incremented; if there is none, (new_element, 1) is pushed
increment_vec(working_vec, new_element) ==
    IF \E i \in 1..Len(working_vec) : working_vec[i][1] = new_element
    THEN [i \in 1..Len(working_vec) |->
            IF working_vec[i][1] = new_element
            THEN <<working_vec[i][1], working_vec[i][2] + 1>>
            ELSE working_vec[i]]
    ELSE Append(working_vec, <<new_element, 1>>)

\* increment_occurence returning early on every marker, not on the
\* Placeholder alone
increment_occurence_SkipMarkers(transition, direction, new_element) ==
    IF ~IsWord(new_element)
    THEN transition
    ELSE IF direction = "Backward"
         THEN [transition EXCEPT !.prev = increment_vec(transition.prev, new_element)]
         ELSE [transition EXCEPT !.next = increment_vec(transition.next, new_element)]

\* increment_occurence without the early return on a Placeholder
increment_occurence_NoSkip(transition, direction, new_element) ==
    IF direction = "Backward"
    THEN [transition EXCEPT !.prev = increment_vec(transition.prev, new_element)]
    ELSE [transition EXCEPT !.next = increment_vec(transition.next, new_element)]

increment_occurence(transition, direction, new_element) ==
    IF new_element = Placeholder
    THEN transition
    ELSE IF direction = "Backward"
         THEN [transition EXCEPT !.prev = increment_vec(transition.prev, new_element)]
         ELSE [transition EXCEPT !.next = increment_vec(transition.next, new_element)]

(***************************************************************************)
(* brain.rs: Brain::ingest                                                 *)
(***************************************************************************)
EmptyStore == <<>>

\* lines 128-140: lower-case, split, drop the empty pieces
Tokenize(line) ==
    LET pieces == split(to_lowercase(line))
        RECURSIVE keep(_)
        keep(ps) == IF ps = <<>> THEN <<>>
                    ELSE IF Head(ps) # <<>>
                         THEN <<Word(Head(ps))>> \o keep(Tail(ps))
                         ELSE keep(Tail(ps))
    IN  keep(pieces)

\* Bracket without the Start and End markers of lines 145 and 148
Bracket_NoMarkers(line) == <<Placeholder>> \o Tokenize(line) \o <<Placeholder>>

\* lines 143-149
Bracket(line) == <<Placeholder, Start>> \o Tokenize(line) \o <<End, Placeholder>>

\* IngestWindow with `insert` of a fresh Transistion in place of
\* `entry(..).or_insert(..)`: what the state had recorded is overwritten
IngestWindow_Insert(st, window, state_size) ==
    LET prev_element == window[1]
        next_element == window[Len(window)]
        constructed_state == SubSeq(window, 2, state_size + 1)
        new == increment_occurence(
                   increment_occurence(EmptyTransistion, "Backward", prev_element),
                   "Forward", next_element)
    IN  [k \in DOMAIN st \cup {constructed_state} |->
            IF k = constructed_state THEN new ELSE st[k]]

\* IngestWindow without the Backward increment of line 171
IngestWindow_ForwardOnly(st, window, state_size) ==
    LET next_element == window[Len(window)]
        constructed_state == SubSeq(window, 2, state_size + 1)
        old == IF constructed_state \in DOMAIN st
               THEN st[constructed_state] ELSE EmptyTransistion
        new == increment_occurence(old, "Forward", next_element)
    IN  [k \in DOMAIN st \cup {constructed_state} |->
            IF k = constructed_state THEN new ELSE st[k]]

\* lines 159-173: one window of width state_size + 2
IngestWindow(st, window, state_size) ==
    LET prev_element == window[1]
        next_element == window[Len(window)]
        constructed_state == SubSeq(window, 2, state_size + 1)
        old == IF constructed_state \in DOMAIN st
               THEN st[constructed_state] ELSE EmptyTransistion
        new == increment_occurence(
                   increment_occurence(old, "Backward", prev_element),
                   "Forward", next_element)
    IN  [k \in DOMAIN st \cup {constructed_state} |->
            IF k = constructed_state THEN new ELSE st[k]]

\* IngestWindows stopping one window early
RECURSIVE IngestWindows_SkipLast(_, _, _, _)
IngestWindows_SkipLast(st, elements, state_size, i) ==
    IF i + state_size + 1 >= Len(elements)
    THEN st
    ELSE IngestWindows_SkipLast(
             IngestWindow(st, SubSeq(elements, i, i + state_size + 1), state_size),
             elements, state_size, i + 1)

\* line 158: windows(state_size + 2), from the window at position i on
RECURSIVE IngestWindows(_, _, _, _)
IngestWindows(st, elements, state_size, i) ==
    IF i + state_size + 1 > Len(elements)
    THEN st
    ELSE IngestWindows(
             IngestWindow(st, SubSeq(elements, i, i + state_size + 1), state_size),
             elements, state_size, i + 1)

\* IngestSizes building the states of the largest size alone, not those of
\* every size from 1 to max_size
IngestSizes_OnlyLargest(st, elements, from, max_size) ==
    IF max_size < 1 \/ Len(elements) <= max_size
    THEN st
    ELSE IngestWindows(st, elements, max_size, 1)

\* lines 153-175: state_size from `from` to max_size
RECURSIVE IngestSizes(_, _, _, _)
IngestSizes(st, elements, from, max_size) ==
    IF from > max_size
    THEN st
    ELSE IF Len(elements) <= from
         THEN IngestSizes(st, elements, from + 1, max_size)
         ELSE IngestSizes(IngestWindows(st, elements, from, 1),
                          elements, from + 1, max_size)

ingest(st, line, max_size) == IngestSizes(st, Bracket(line), 1, max_size)

(***************************************************************************)
(* The state of one Brain and of the call in progress.                     *)
(***************************************************************************)
VARIABLES
    config,             \* Brain::config
    state_transitions,  \* Brain::state_transitions
    pc,                 \* "idle", "extending", "returned" or "panicked"
    input,              \* the line given to the call in progress
    bypass_checks,      \* the flag given to _generate
    sentence,           \* _generate's local `sentence`
    response,           \* what _generate returned: None or Some(text)
    entry,              \* state_transitions on entry to the call
    ingest_runs,        \* how many times the call has run `ingest`
    ingested,           \* every (line, max_size) `ingest` has run on, in order
    rng,                \* the values Brain::rng produces from its seed, when
                        \* two engines with one seed are compared
    twin                \* the second engine of such a comparison

vars == <<config, state_transitions, pc, input, bypass_checks, sentence,
          response, entry, ingest_runs, ingested, rng, twin>>

twin_vars == <<rng, twin>>

None == <<"None">>

Some(text) == <<"Some", text>>

NoCall == <<"NoCall">>

\* no second engine is being compared
NoTwin == [sentence |-> <<>>, response |-> NoCall]

\* Brain::new() followed by the builder's config(..); the configuration is
\* not edited afterwards
Init ==
    /\ config \in Configs
    /\ state_transitions = EmptyStore
    /\ pc = "idle"
    /\ input = <<>>
    /\ bypass_checks = FALSE
    /\ sentence = <<>>
    /\ response = NoCall
    /\ entry = EmptyStore
    /\ ingest_runs = 0
    /\ ingested = <<>>
    /\ rng = <<>>
    /\ twin = NoTwin

\* a caller may start an operation when no call is in progress
Ready == pc \in {"idle", "returned"}

\* Brain::from_dataset: one line of the dataset
from_dataset(line) ==
    /\ Ready
    /\ Len(ingested) < MaxIngests
    /\ state_transitions' =
           ingest(state_transitions, line, config.max_ingestion_state_size)
    /\ ingested' = Append(ingested, <<line, config.max_ingestion_state_size>>)
    /\ pc' = "idle"
    /\ input' = <<>>
    /\ bypass_checks' = FALSE
    /\ sentence' = <<>>
    /\ response' = NoCall
    /\ entry' = state_transitions'
    /\ ingest_runs' = 0
    /\ UNCHANGED <<config, twin_vars>>

(***************************************************************************)
(* brain.rs: Brain::_generate, its two public entries and get_element      *)
(***************************************************************************)
\* gen_bool forgetting that a probability of 0.0 never succeeds
gen_bool_AnyOutcome(rate) == {TRUE, FALSE}

\* rng.gen_bool(p): never true for p = 0.0, always true for p = 1.0
gen_bool(rate) ==
    IF rate = 0 THEN {FALSE} ELSE IF rate = 100 THEN {TRUE} ELSE {TRUE, FALSE}

\* elements.shuffle(&mut self.rng): every order of the pieces
Shuffles(elements) ==
    {[i \in 1..Len(elements) |-> elements[p[i]]] :
        p \in Permutations(1..Len(elements))}

\* state_with_element_vec without its filter: every state is collected
state_with_element_vec_All(st, element) == DOMAIN st

state_with_element_vec(st, element) ==
    {state \in DOMAIN st : \E i \in 1..Len(state) : state[i] = element}

\* State::random_element: any element of the state
random_element(state) == {state[i] : i \in 1..Len(state)}

\* lines 337-346: pop the pieces until one is an element of some state;
\* the empty set stands for original_element = None
RECURSIVE PopLoop(_, _)
PopLoop(st, elements) ==
    IF elements = <<>>
    THEN {}
    ELSE LET word == elements[Len(elements)]
             states == state_with_element_vec(st, Word(word))
         IN  IF states = {}
             THEN PopLoop(st, SubSeq(elements, 1, Len(elements) - 1))
             ELSE UNION {random_element(state) : state \in states}

\* the value standing for the panic of an `.unwrap()` on None or Err
ChoosePanic == <<"Panic", <<>>>>

\* lines 348-356: a random element of a random key of the store;
\* keys().choose(..) is None on an empty store and the unwrap panics
WholeStoreChoice(st) ==
    IF DOMAIN st = {}
    THEN {ChoosePanic}
    ELSE UNION {random_element(state) : state \in DOMAIN st}

\* lines 328-358: the values original_element can take
SeedChoices(st, line) ==
    UNION { LET found == PopLoop(st, shuffled)
            IN  IF found = {} THEN WholeStoreChoice(st) ELSE found
          : shuffled \in Shuffles(split(trim_end(line))) }

\* FindTransition trying the largest state size of the range first
RECURSIVE FindTransition_LongestFirst(_, _, _, _)
FindTransition_LongestFirst(st, direction, sent, range) ==
    IF range = {}
    THEN {}
    ELSE LET state_size == CHOOSE n \in range : \A m \in range : n >= m
             min == IF state_size < Len(sent) THEN state_size ELSE Len(sent)
             key == IF direction = "Backward"
                    THEN SubSeq(sent, 1, min)
                    ELSE SubSeq(sent, Len(sent) - min + 1, Len(sent))
         IN  IF key \in DOMAIN st
             THEN {key}
             ELSE FindTransition_LongestFirst(st, direction, sent,
                                              range \ {state_size})

\* lines 416-436: the key of the first state size of the range, in ascending
\* order, whose lookup succeeds, as a set of at most one key
RECURSIVE FindTransition(_, _, _, _)
FindTransition(st, direction, sent, range) ==
    IF range = {}
    THEN {}
    ELSE LET state_size == CHOOSE n \in range : \A m \in range : n <= m
             min == IF state_size < Len(sent) THEN state_size ELSE Len(sent)
             key == IF direction = "Backward"
                    THEN SubSeq(sent, 1, min)
                    ELSE SubSeq(sent, Len(sent) - min + 1, Len(sent))
         IN  IF key \in DOMAIN st
             THEN {key}
             ELSE FindTransition(st, direction, sent, range \ {state_size})

\* get_element with the two boundary markers of lines 439-442 exchanged
get_element_WrongBoundary(st, cfg, direction, sent) ==
    LET found == FindTransition(st, direction, sent, get_state_range(cfg))
    IN  IF found = {}
        THEN IF direction = "Backward" THEN {End} ELSE {Start}
        ELSE LET transition == st[CHOOSE k \in found : TRUE]
                 attribute == IF direction = "Backward"
                              THEN transition.prev ELSE transition.next
                 positive == {i \in 1..Len(attribute) : attribute[i][2] > 0}
             IN  IF positive = {}
                 THEN {ChoosePanic}
                 ELSE {attribute[i][1] : i \in positive}

\* get_element reading `next` when walking backward and `prev` when forward
get_element_Swapped(st, cfg, direction, sent) ==
    LET found == FindTransition(st, direction, sent, get_state_range(cfg))
    IN  IF found = {}
        THEN IF direction = "Backward" THEN {Start} ELSE {End}
        ELSE LET transition == st[CHOOSE k \in found : TRUE]
                 attribute == IF direction = "Backward"
                              THEN transition.next ELSE transition.prev
                 positive == {i \in 1..Len(attribute) : attribute[i][2] > 0}
             IN  IF positive = {}
                 THEN {ChoosePanic}
                 ELSE {attribute[i][1] : i \in positive}

\* lines 409-454: the elements get_element can return
get_element(st, cfg, direction, sent) ==
    LET found == FindTransition(st, direction, sent, get_state_range(cfg))
    IN  IF found = {}
        THEN IF direction = "Backward" THEN {Start} ELSE {End}
        ELSE LET transition == st[CHOOSE k \in found : TRUE]
                 attribute == IF direction = "Backward"
                              THEN transition.prev ELSE transition.next
                 positive == {i \in 1..Len(attribute) : attribute[i][2] > 0}
             IN  IF positive = {}
                 THEN {ChoosePanic}
                 ELSE {attribute[i][1] : i \in positive}

\* lines 374-386: the words of the sentence joined by single spaces
RECURSIVE JoinWords(_)
JoinWords(sent) ==
    IF sent = <<>> THEN <<>>
    ELSE IF ~IsWord(Head(sent)) THEN JoinWords(Tail(sent))
    ELSE LET rest == JoinWords(Tail(sent))
         IN  IF \E i \in 1..Len(Tail(sent)) : IsWord(Tail(sent)[i])
             THEN Head(sent)[2] \o <<" ">> \o rest
             ELSE Head(sent)[2]

\* generate_bypass_checks' response.unwrap(): a None panics
AfterReturn(bypass, resp) ==
    IF bypass /\ resp = None THEN "panicked" ELSE "returned"

\* TrainAndReturn returning without the conditional ingest
TrainAndReturn_NoTrain(runs, line, bypass, resp, sent) ==
    /\ state_transitions' = state_transitions
    /\ ingested' = ingested
    /\ ingest_runs' = runs
    /\ response' = resp
    /\ sentence' = sent
    /\ pc' = AfterReturn(bypass, resp)

\* `if self.config.training { self.ingest(input) }` followed by a return;
\* `runs` is how many times the call has run `ingest` so far
TrainAndReturn(runs, line, bypass, resp, sent) ==
    /\ state_transitions' =
           IF config.training
           THEN ingest(state_transitions, line, config.max_ingestion_state_size)
           ELSE state_transitions
    /\ ingested' =
           IF config.training
           THEN Append(ingested, <<line, config.max_ingestion_state_size>>)
           ELSE ingested
    /\ ingest_runs' = IF config.training THEN runs + 1 ELSE runs
    /\ response' = resp
    /\ sentence' = sent
    /\ pc' = AfterReturn(bypass, resp)

\* the empty-store check left out
StoreIsEmpty_Never(st) == FALSE

\* line 303
StoreIsEmpty(st) == DOMAIN st = {}

\* the mute check forgetting the bypass flag
Muted_IgnoresBypass(cfg, bypass) == cfg.mute

\* the mute check left out
Muted_Never(cfg, bypass) == FALSE

\* line 311
Muted(cfg, bypass) == cfg.mute /\ ~bypass

\* line 320, `reply` being what gen_bool drew
ReplySkipped(reply, bypass) == ~reply /\ ~bypass

\* lines 300-358: the gating and the choice of the seed element
_generate(line, bypass) ==
    /\ Ready
    /\ config.training => Len(ingested) < MaxIngests
    /\ input' = line
    /\ bypass_checks' = bypass
    /\ entry' = state_transitions
    /\ UNCHANGED <<config, twin_vars>>
    /\ IF StoreIsEmpty(state_transitions)
       THEN TrainAndReturn(0, line, bypass, None, <<>>)
       ELSE IF Muted(config, bypass)
       THEN TrainAndReturn(0, line, bypass, None, <<>>)
       ELSE \E reply \in gen_bool(config.reply_rate) :
               IF ReplySkipped(reply, bypass)
               THEN TrainAndReturn(0, line, bypass, None, <<>>)
               ELSE \E original_element \in SeedChoices(state_transitions, line) :
                       /\ sentence' = IF original_element = ChoosePanic
                                      THEN <<>> ELSE <<original_element>>
                       /\ pc' = IF original_element = ChoosePanic
                                THEN "panicked" ELSE "extending"
                       /\ response' = NoCall
                       /\ ingest_runs' = 0
                       /\ UNCHANGED <<state_transitions, ingested>>

generate(line) == _generate(line, FALSE)

generate_bypass_checks(line) == _generate(line, TRUE)

\* lines 360-363: one turn of the backward loop
ExtendBackward ==
    /\ pc = "extending"
    /\ Head(sentence) # Start
    /\ Len(sentence) < MaxSentenceLen
    /\ \E prev_element \in get_element(state_transitions, config, "Backward", sentence) :
          /\ sentence' = IF prev_element = ChoosePanic
                         THEN sentence ELSE <<prev_element>> \o sentence
          /\ pc' = IF prev_element = ChoosePanic THEN "panicked" ELSE "extending"
    /\ UNCHANGED <<config, state_transitions, input, bypass_checks, response,
                   entry, ingest_runs, ingested, twin_vars>>

\* lines 365-368: one turn of the forward loop
ExtendForward ==
    /\ pc = "extending"
    /\ Head(sentence) = Start
    /\ sentence[Len(sentence)] # End
    /\ Len(sentence) < MaxSentenceLen
    /\ \E next_element \in get_element(state_transitions, config, "Forward", sentence) :
          /\ sentence' = IF next_element = ChoosePanic
                         THEN sentence ELSE Append(sentence, next_element)
          /\ pc' = IF next_element = ChoosePanic THEN "panicked" ELSE "extending"
    /\ UNCHANGED <<config, state_transitions, input, bypass_checks, response,
                   entry, ingest_runs, ingested, twin_vars>>

\* Finish without waiting for the forward loop of lines 365-368
Finish_NoForwardLoop ==
    /\ pc = "extending"
    /\ Head(sentence) = Start
    /\ TrainAndReturn(ingest_runs, input, bypass_checks,
                          Some(JoinWords(sentence)), sentence)
    /\ UNCHANGED <<config, input, bypass_checks, entry, twin_vars>>

\* lines 370-386: both loops are over
Finish ==
    /\ pc = "extending"
    /\ Head(sentence) = Start
    /\ sentence[Len(sentence)] = End
    /\ TrainAndReturn(ingest_runs, input, bypass_checks,
                          Some(JoinWords(sentence)), sentence)
    /\ UNCHANGED <<config, input, bypass_checks, entry, twin_vars>>

Next ==
    \/ \E line \in Lines : from_dataset(line)
    \/ \E line \in Lines : generate(line)
    \/ \E line \in Lines : generate_bypass_checks(line)
    \/ ExtendBackward
    \/ ExtendForward
    \/ Finish

Spec == Init /\ [][Next]_vars

(***************************************************************************)
(* Two engines with the same generator seed, the same store contents and   *)
(* the same configuration.  The variables config, state_transitions and    *)
(* input are what the two engines have in common; sentence and response    *)
(* are the first engine's, twin.sentence and twin.response the second's.   *)
(* The generator is the sequence of values it produces from its seed, read *)
(* cyclically; both engines read the same sequence.                        *)
(***************************************************************************)
\* the period of the generator's sequence
MaxDraws == 3

\* the values a draw can produce
MaxDrawValue == 1

Seeds == [1..MaxDraws -> 0..MaxDrawValue]

\* RngCore::next_u32 of the generator at position pos of its sequence
next_u32(seed, pos) == seed[(pos % MaxDraws) + 1]

\* rand's gen_index(rng, ubound): an index below ubound
gen_index(seed, pos, ubound) == next_u32(seed, pos) % ubound

\* rng.gen_bool(p) at position pos: <<outcome, position after>>; p = 1.0
\* answers true without a draw
gen_bool_at(rate, seed, pos) ==
    IF rate = 100 THEN <<TRUE, pos>>
    ELSE <<rate = 50 /\ next_u32(seed, pos) = 0, pos + 1>>

\* SliceRandom::shuffle: for i from len - 1 down to 1, swap(i, gen_index(i + 1))
RECURSIVE shuffle(_, _, _, _)
shuffle(elements, seed, pos, i) ==
    IF i < 2
    THEN <<elements, pos>>
    ELSE LET j == gen_index(seed, pos, i) + 1
             swapped == [k \in 1..Len(elements) |->
                            IF k = i THEN elements[j]
                            ELSE IF k = j THEN elements[i]
                            ELSE elements[k]]
         IN  shuffle(swapped, seed, pos + 1, i - 1)

\* lines 337-346 up to `states.choose`: the states holding the first popped
\* word that some state holds; {} when no word is held (original_element
\* stays None)
RECURSIVE PopStates(_, _)
PopStates(st, elements) ==
    IF elements = <<>>
    THEN {}
    ELSE LET states == state_with_element_vec(st, Word(elements[Len(elements)]))
         IN  IF states = {}
             THEN PopStates(st, SubSeq(elements, 1, Len(elements) - 1))
             ELSE states

\* lines 339 and 350-353: `states.choose(..)` and `keys().choose(..)` index
\* into the iteration order of the HashMap with the index the generator
\* draws.  The order is unspecified and differs from map to map (each
\* HashMap has its own RandomState), so the state at the drawn index can be
\* any of the candidates.
iter_choose(candidates, index) == candidates

\* choose_weighted(.., |item| item.1): the entry below which the drawn value
\* falls in the running sum of the weights
RECURSIVE weighted_at(_, _)
weighted_at(list, value) ==
    IF value < Head(list)[2]
    THEN Head(list)[1]
    ELSE weighted_at(Tail(list), value - Head(list)[2])

RECURSIVE TotalWeight(_)
TotalWeight(list) ==
    IF list = <<>> THEN 0 ELSE Head(list)[2] + TotalWeight(Tail(list))

\* get_element with the generator at position pos:
\* <<element, position after>>
get_element_at(st, cfg, direction, sent, seed, pos) ==
    LET found == FindTransition(st, direction, sent, get_state_range(cfg))
    IN  IF found = {}
        THEN <<IF direction = "Backward" THEN Start ELSE End, pos>>
        ELSE LET transition == st[CHOOSE k \in found : TRUE]
                 attribute == IF direction = "Backward"
                              THEN transition.prev ELSE transition.next
             IN  IF TotalWeight(attribute) = 0
                 THEN <<ChoosePanic, pos>>
                 ELSE <<weighted_at(attribute,
                                    gen_index(seed, pos, TotalWeight(attribute))),
                        pos + 1>>

\* lines 360-386 with the generator at position pos: the sentence built and
\* what is returned; NoCall when the loops pass MaxSentenceLen
RECURSIVE ExtendAt(_, _, _, _, _)
ExtendAt(st, cfg, sent, seed, pos) ==
    LET direction == IF Head(sent) # Start THEN "Backward" ELSE "Forward"
        drawn == get_element_at(st, cfg, direction, sent, seed, pos)
    IN  IF Head(sent) = Start /\ sent[Len(sent)] = End
        THEN [sentence |-> sent, response |-> Some(JoinWords(sent))]
        ELSE IF Len(sent) >= MaxSentenceLen
        THEN [sentence |-> sent, response |-> NoCall]
        ELSE IF drawn[1] = ChoosePanic
        THEN [sentence |-> sent, response |-> ChoosePanic]
        ELSE ExtendAt(st, cfg,
                      IF direction = "Backward"
                      THEN <<drawn[1]>> \o sent ELSE Append(sent, drawn[1]),
                      seed, drawn[2])

\* State::random_element with the generator at position pos
random_element_at(state, seed, pos) == state[gen_index(seed, pos, Len(state)) + 1]

\* both engines return; the store they have in common takes the input line
\* when training is on
TwinReturn(line, first, second) ==
    /\ sentence' = first.sentence
    /\ response' = first.response
    /\ twin' = second
    /\ pc' = "returned"
    /\ state_transitions' =
           IF config.training
           THEN ingest(state_transitions, line, config.max_ingestion_state_size)
           ELSE state_transitions
    /\ ingested' =
           IF config.training
           THEN Append(ingested, <<line, config.max_ingestion_state_size>>)
           ELSE ingested
    /\ ingest_runs' = IF config.training THEN 1 ELSE 0

NoOutput == [sentence |-> <<>>, response |-> None]

\* _generate (lines 300-387) run by both engines on the same input, each
\* reading the generator's sequence from its start.  The compared call is
\* the one after the ingest calls: a call after another call is a call with
\* another seed on the store the first one left.
TwinGenerate(line, bypass, seed) ==
    /\ pc = "idle"
    /\ config.training => Len(ingested) < MaxIngests
    /\ input' = line
    /\ bypass_checks' = bypass
    /\ entry' = state_transitions
    /\ rng' = seed
    /\ UNCHANGED config
    /\ LET reply == gen_bool_at(config.reply_rate, seed, 0)
           elements == split(trim_end(line))
           shuffled == shuffle(elements, seed, reply[2], Len(elements))
           popped == PopStates(state_transitions, shuffled[1])
           candidates == IF popped = {} THEN DOMAIN state_transitions ELSE popped
           index == gen_index(seed, shuffled[2], Cardinality(candidates))
           \* the pop loop draws from rng_clone, the whole-store choice
           \* from self.rng
           after == IF popped = {} THEN shuffled[2] + 2 ELSE shuffled[2]
           run(state) ==
               ExtendAt(state_transitions, config,
                        <<random_element_at(state, seed, shuffled[2] + 1)>>,
                        seed, after)
       IN  IF \/ StoreIsEmpty(state_transitions)
              \/ Muted(config, bypass)
              \/ ReplySkipped(reply[1], bypass)
           THEN TwinReturn(line, NoOutput, NoOutput)
           ELSE \E first \in iter_choose(candidates, index) :
                \E second \in iter_choose(candidates, index) :
                    TwinReturn(line, run(first), run(second))

\* how many lines the dataset of the two engines may hold
MaxTwinLines == 1

\* Brain::from_dataset run by both engines on the same line
TwinIngest(line) ==
    /\ Ready
    /\ Len(ingested) < MaxTwinLines
    /\ state_transitions' =
           ingest(state_transitions, line, config.max_ingestion_state_size)
    /\ ingested' = Append(ingested, <<line, config.max_ingestion_state_size>>)
    /\ pc' = "idle"
    /\ input' = <<>>
    /\ bypass_checks' = FALSE
    /\ sentence' = <<>>
    /\ response' = NoCall
    /\ entry' = state_transitions'
    /\ ingest_runs' = 0
    /\ rng' = <<>>
    /\ twin' = NoTwin
    /\ UNCHANGED config

TwinNext ==
    \/ \E line \in Lines : TwinIngest(line)
    \/ \E line \in Lines : \E bypass \in BOOLEAN : \E seed \in Seeds :
          TwinGenerate(line, bypass, seed)

SpecTwin == Init /\ [][TwinNext]_vars

(***************************************************************************)
(* The extension loops without a bound on the length of the sentence.      *)
(* get_element reads at most max_generation_state_size - 1 elements at one *)
(* end of the sentence, and the loop conditions read its first and its     *)
(* last element, so the sentence is kept as its two ends: the elements in  *)
(* between are dropped, a gap that records whether their number is odd     *)
(* stands for them, and the text returned is that of the two ends.         *)
(***************************************************************************)
\* the longest context get_element can look up
MaxContext == MaxGenSize - 1

\* what stands for the dropped elements
Gap(parity) == <<"Gap", <<parity>>>>

IsGap(e) == e[1] = "Gap"

\* how many elements the middle of a sentence stands for, modulo 2
RECURSIVE Dropped(_)
Dropped(middle) ==
    IF middle = <<>> THEN 0
    ELSE ((IF IsGap(Head(middle))
           THEN (IF Head(middle)[2][1] = "odd" THEN 1 ELSE 0)
           ELSE 1) + Dropped(Tail(middle))) % 2

\* the sentence, or its first and last MaxContext elements around a gap
TwoEnds(sent) ==
    IF Len(sent) <= 2 * MaxContext
    THEN sent
    ELSE SubSeq(sent, 1, MaxContext)
            \o <<Gap(IF Dropped(SubSeq(sent, MaxContext + 1, Len(sent) - MaxContext)) = 1
                     THEN "odd" ELSE "even")>>
            \o SubSeq(sent, Len(sent) - MaxContext + 1, Len(sent))

\* what the elements of a sentence are drawn from
WalkElements ==
    {Start, End}
        \cup UNION {{Tokenize(line)[i] : i \in 1..Len(Tokenize(line))} : line \in Lines}

\* lines 360-363: one turn of the backward loop that draws prev_element
WalkBackward(prev_element) ==
    /\ pc = "extending"
    /\ Head(sentence) # Start
    /\ LET drawn == get_element(state_transitions, config, "Backward", sentence)
       IN  \/ /\ prev_element \in drawn
              /\ sentence' = TwoEnds(<<prev_element>> \o sentence)
              /\ pc' = "extending"
           \/ /\ ChoosePanic \in drawn
              /\ sentence' = sentence
              /\ pc' = "panicked"
    /\ UNCHANGED <<config, state_transitions, input, bypass_checks, response,
                   entry, ingest_runs, ingested, twin_vars>>

\* lines 365-368: one turn of the forward loop that draws next_element
WalkForward(next_element) ==
    /\ pc = "extending"
    /\ Head(sentence) = Start
    /\ sentence[Len(sentence)] # End
    /\ LET drawn == get_element(state_transitions, config, "Forward", sentence)
       IN  \/ /\ next_element \in drawn
              /\ sentence' = TwoEnds(Append(sentence, next_element))
              /\ pc' = "extending"
           \/ /\ ChoosePanic \in drawn
              /\ sentence' = sentence
              /\ pc' = "panicked"
    /\ UNCHANGED <<config, state_transitions, input, bypass_checks, response,
                   entry, ingest_runs, ingested, twin_vars>>

WalkNext ==
    \/ \E line \in Lines : from_dataset(line)
    \/ \E line \in Lines : generate(line)
    \/ \E line \in Lines : generate_bypass_checks(line)
    \/ \E e \in WalkElements : WalkBackward(e)
    \/ \E e \in WalkElements : WalkForward(e)
    \/ Finish

\* choose_weighted gives every neighbour with a positive weight a positive
\* probability at every draw, so a neighbour that can be drawn again and
\* again is drawn in the end.  Only this much of it is assumed: a boundary
\* marker that can be drawn again and again is drawn in the end, and a loop
\* that can take a turn takes it.
FairSampling ==
    /\ SF_vars(WalkBackward(Start))
    /\ SF_vars(WalkForward(End))
    /\ WF_vars(\E e \in WalkElements : WalkBackward(e))
    /\ WF_vars(\E e \in WalkElements : WalkForward(e))
    /\ WF_vars(Finish)

\* the call in progress runs on, whatever the generator draws
LoopsRun ==
    /\ WF_vars(\E e \in WalkElements : WalkBackward(e))
    /\ WF_vars(\E e \in WalkElements : WalkForward(e))
    /\ WF_vars(Finish)

\* the engines whose calls get to the loops: not muted, reply_rate 1.0; the
\* store is built by from_dataset alone (training, which runs the same ingest
\* after the loops, is off)
WalkInit == Init /\ ~config.mute /\ config.reply_rate = 100 /\ ~config.training

SpecWalk == WalkInit /\ [][WalkNext]_vars /\ FairSampling

\* the same engine with nothing assumed about what the generator draws
SpecLoops == WalkInit /\ [][WalkNext]_vars /\ LoopsRun

\* the engines that learn from the inputs of their calls: training on,
\* max_ingestion_state_size >= 1
LearnInit == Init /\ config.training /\ config.max_ingestion_state_size >= 1

\* lines 370-386: the call in progress stands where both loops are over and
\* only the conditional ingest and the return are left to run
LoopsDone ==
    /\ pc = "extending"
    /\ Head(sentence) = Start
    /\ sentence[Len(sentence)] = End

\* FairSampling for an engine that trains: the same assumptions, with the
\* return of the call stated on the states (no call stays for ever where its
\* loops are over), which is what weak fairness of Finish says, since Finish
\* is the only step that can be taken there
FairLearning ==
    /\ SF_vars(WalkBackward(Start))
    /\ SF_vars(WalkForward(End))
    /\ WF_vars(\E e \in WalkElements : WalkBackward(e))
    /\ WF_vars(\E e \in WalkElements : WalkForward(e))
    /\ []<>(~LoopsDone)

\* such an engine under fair sampling
SpecLearn == LearnInit /\ [][WalkNext]_vars /\ FairLearning

(***************************************************************************)
(* Properties.                                                             *)
(***************************************************************************)
\* the sum of the counts recorded for element e in a neighbour list
RECURSIVE CountIn(_, _)
CountIn(list, e) ==
    IF list = <<>> THEN 0
    ELSE (IF Head(list)[1] = e THEN Head(list)[2] ELSE 0) + CountIn(Tail(list), e)

\* a call has run to its end: _generate returned (the wrapper may then panic)
CallOver == pc \in {"returned", "panicked"} /\ response # NoCall

InCall == pc # "idle"

TheWord == Word(<<"t", "h", "e">>)

CatWord == Word(<<"c", "a", "t">>)

SatWord == Word(<<"s", "a", "t">>)

\* C1: no State of the store has the Placeholder marker in its prev list or
\* in its next list, in any state reachable by ingest and generate calls.
NoPlaceholderLeakage ==
    \A state \in DOMAIN state_transitions :
        /\ \A i \in 1..Len(state_transitions[state].prev) :
              state_transitions[state].prev[i][1] # Placeholder
        /\ \A i \in 1..Len(state_transitions[state].next) :
              state_transitions[state].next[i][1] # Placeholder

\* C1 witness: a generate call has trained on a line, so the windows whose
\* neighbours are the two placeholders have been ingested
PlaceholderWindowsIngested ==
    /\ CallOver
    /\ ingest_runs = 1
    /\ <<Start>> \in DOMAIN state_transitions
    /\ <<End>> \in DOMAIN state_transitions
    /\ state_transitions[<<Start>>].prev = <<>>
    /\ state_transitions[<<End>>].next = <<>>

\* the bracketed line [Start, words..., End] of each line
Bracketed == [line \in Lines |-> <<Start>> \o Tokenize(line) \o <<End>>]

\* the contiguous slices of length 1..max_size of one bracketed line
SlicesOf(line, max_size) ==
    LET b == Bracketed[line]
    IN  {SubSeq(b, i, i + len - 1) :
            <<i, len>> \in {<<i, len>> \in (1..Len(b)) \X (1..max_size) :
                                i + len - 1 <= Len(b)}}

ReferenceKeys ==
    UNION {SlicesOf(ingested[n][1], ingested[n][2]) : n \in 1..Len(ingested)}

\* the positions of one bracketed line where e immediately precedes state s
PrecedesIn(line, max_size, s, e) ==
    LET b == Bracketed[line]
    IN  IF Len(s) > max_size THEN 0
        ELSE Cardinality({i \in 2..(Len(b) - Len(s) + 1) :
                /\ b[i - 1] = e
                /\ SubSeq(b, i, i + Len(s) - 1) = s})

\* the positions of one bracketed line where e immediately follows state s
FollowsIn(line, max_size, s, e) ==
    LET b == Bracketed[line]
    IN  IF Len(s) > max_size THEN 0
        ELSE Cardinality({i \in 1..(Len(b) - Len(s)) :
                /\ b[i + Len(s)] = e
                /\ SubSeq(b, i, i + Len(s) - 1) = s})

RECURSIVE ReferencePrev(_, _, _)
ReferencePrev(history, s, e) ==
    IF history = <<>> THEN 0
    ELSE PrecedesIn(Head(history)[1], Head(history)[2], s, e)
            + ReferencePrev(Tail(history), s, e)

RECURSIVE ReferenceNext(_, _, _)
ReferenceNext(history, s, e) ==
    IF history = <<>> THEN 0
    ELSE FollowsIn(Head(history)[1], Head(history)[2], s, e)
            + ReferenceNext(Tail(history), s, e)

\* the markers and every word of the lines
KnownElements ==
    {Placeholder, Start, End}
        \cup UNION {{Bracketed[line][i] : i \in 1..Len(Bracketed[line])} : line \in Lines}

\* the elements of a neighbour list
ElementsIn(list) == {list[i][1] : i \in 1..Len(list)}

\* C2: the store equals reference n-gram counting over the ingested lines:
\* its keys are exactly the slices of length 1..M of the bracketed lines, and
\* the count of e in prev(s) (next(s)) is the number of positions where e
\* immediately precedes (follows) s.  After ingesting only "the cat sat" with
\* M = 2 the states the, cat, sat, the cat, cat sat exist and cat has
\* prev = [(the,1)], next = [(sat,1)].
IngestionIsNGramCounting ==
    /\ DOMAIN state_transitions = ReferenceKeys
    /\ \A s \in DOMAIN state_transitions :
          /\ ElementsIn(state_transitions[s].prev) \subseteq KnownElements
          /\ ElementsIn(state_transitions[s].next) \subseteq KnownElements
          /\ \A e \in KnownElements :
                /\ CountIn(state_transitions[s].prev, e)
                      = ReferencePrev(ingested, s, e)
                /\ CountIn(state_transitions[s].next, e)
                      = ReferenceNext(ingested, s, e)
    /\ ingested = <<<<LineTheCatSat, 2>>>> =>
          /\ {<<TheWord>>, <<CatWord>>, <<SatWord>>,
              <<TheWord, CatWord>>, <<CatWord, SatWord>>} \subseteq DOMAIN state_transitions
          /\ state_transitions[<<CatWord>>] =
                [prev |-> <<<<TheWord, 1>>>>, next |-> <<<<SatWord, 1>>>>]

\* C2 witness: two lines sharing the word cat have been ingested with M = 2
TwoLinesCounted ==
    /\ ingested = <<<<LineTheCatSat, 2>>, <<LineCatCat, 2>>>>
    /\ CountIn(state_transitions[<<CatWord>>].prev, CatWord) = 1
    /\ CountIn(state_transitions[<<CatWord>>].prev, TheWord) = 1
    /\ CountIn(state_transitions[<<CatWord>>].next, End) = 1

\* C3: after the same line has been ingested twice from the empty store, the
\* keys are those of ingesting it once and every count is double.
SameLineTwiceDoubles ==
    (Len(ingested) = 2 /\ ingested[1] = ingested[2]) =>
        LET once == ingest(EmptyStore, ingested[1][1], ingested[1][2])
        IN  /\ DOMAIN state_transitions = DOMAIN once
            /\ \A s \in DOMAIN once : \A e \in KnownElements :
                  /\ CountIn(state_transitions[s].prev, e)
                        = 2 * CountIn(once[s].prev, e)
                  /\ CountIn(state_transitions[s].next, e)
                        = 2 * CountIn(once[s].next, e)

\* C3 witness: "the cat sat" ingested twice with M = 2
SameLineIngestedTwice ==
    /\ ingested = <<<<LineTheCatSat, 2>>, <<LineTheCatSat, 2>>>>
    /\ state_transitions[<<CatWord>>].prev = <<<<TheWord, 2>>>>

CatStore == ingest(EmptyStore, LineTheCatSat, 2)

CatScenario ==
    /\ InCall
    /\ entry = CatStore
    /\ config.min_generation_state_size = 1
    /\ config.max_generation_state_size = 2
    /\ bypass_checks
    /\ input = LineCat

CatSentence == <<Start, TheWord, CatWord, SatWord, End>>

IsSliceOf(part, whole) ==
    \E i \in 1..Len(whole) :
        /\ i + Len(part) - 1 <= Len(whole)
        /\ SubSeq(whole, i, i + Len(part) - 1) = part

\* C4: on the store built from "the cat sat" alone with M = 2, generation with
\* bypass, min 1 and max 2 from input "cat" never panics, only ever builds
\* slices of [Start, the, cat, sat, End], and returns exactly "the cat sat".
CatGeneratesTheCatSat ==
    CatScenario =>
        /\ pc # "panicked"
        /\ IsSliceOf(sentence, CatSentence)
        /\ pc = "returned" => response = Some(LineTheCatSat)

\* C4 witness: that call has returned "the cat sat"
CatCallReturned ==
    /\ CatScenario
    /\ pc = "returned"
    /\ response = Some(LineTheCatSat)

\* C5 (the claim as stated): every call with bypass returns Some output, so
\* the unwrap in generate_bypass_checks never fails.
BypassAlwaysSome ==
    (CallOver /\ bypass_checks) => (response # None /\ pc # "panicked")

NextTurn ==
    IF Head(sentence) # Start
    THEN get_element(state_transitions, config, "Backward", sentence)
    ELSE IF sentence[Len(sentence)] # End
    THEN get_element(state_transitions, config, "Forward", sentence)
    ELSE {End}

ZeroReplyRateReturnsNone ==
    (InCall /\ ~bypass_checks /\ config.reply_rate = 0 /\ entry # EmptyStore) =>
        (pc = "returned" /\ response = None)

\* C8 witness: such a call on an engine that is not muted
ZeroReplyRateCall ==
    /\ pc = "returned"
    /\ ~bypass_checks
    /\ config.reply_rate = 0
    /\ ~config.mute
    /\ entry # EmptyStore
    /\ response = None

\* C9: with mute on and without bypass, a call returns None at once and has
\* ingested the input line if and only if training is on.
MuteReturnsNone ==
    (InCall /\ config.mute /\ ~bypass_checks) =>
        /\ pc = "returned"
        /\ response = None
        /\ ingest_runs = (IF config.training THEN 1 ELSE 0)
        /\ state_transitions =
              IF config.training
              THEN ingest(entry, input, config.max_ingestion_state_size)
              ELSE entry

\* C9 witness: a muted, training engine with a non-empty store took a call
MutedTrainingCall ==
    /\ pc = "returned"
    /\ config.mute
    /\ ~bypass_checks
    /\ config.training
    /\ config.max_ingestion_state_size > 0
    /\ entry # EmptyStore
    /\ response = None
    /\ ingest_runs = 1
    /\ state_transitions # entry

\* C10: when a call is over, the store is the store on entry with the input
\* line ingested exactly once if training is on, and the store on entry if
\* training is off; until then the call leaves the store alone.
StoreEffectOfGeneration ==
    /\ CallOver =>
          /\ ingest_runs = (IF config.training THEN 1 ELSE 0)
          /\ state_transitions =
                IF config.training
                THEN ingest(entry, input, config.max_ingestion_state_size)
                ELSE entry
    /\ pc = "extending" => (ingest_runs = 0 /\ state_transitions = entry)

\* C10 witness: a training engine replied to a call that passed the gates
TrainedAfterReply ==
    /\ pc = "returned"
    /\ ~bypass_checks
    /\ config.training
    /\ config.max_ingestion_state_size > 0
    /\ response # None
    /\ response # NoCall
    /\ ingest_runs = 1
    /\ state_transitions # entry

\* the neighbour list `after` has every element of `before`, none with a
\* smaller count
ListGrows(before, after) ==
    \A e \in ElementsIn(before) :
        /\ e \in ElementsIn(after)
        /\ CountIn(after, e) >= CountIn(before, e)

StoreGrows(before, after) ==
    /\ DOMAIN before \subseteq DOMAIN after
    /\ \A s \in DOMAIN before :
          /\ ListGrows(before[s].prev, after[s].prev)
          /\ ListGrows(before[s].next, after[s].next)

\* C11: in every step of every sequence of ingest and generate calls the
\* store keeps every State key, every element of every prev and next list,
\* and no occurrence count decreases.
MonotonicGrowth ==
    [][StoreGrows(state_transitions, state_transitions')]_vars

\* C11 witness: a store holding "the cat sat" took "cat" as a second line, so
\* the state cat was written again and holds both of its predecessors
StoreGrewTwice ==
    /\ ingested = <<<<LineTheCatSat, 2>>, <<LineCat, 2>>>>
    /\ ElementsIn(state_transitions[<<CatWord>>].prev) = {TheWord, Start}
    /\ ElementsIn(state_transitions[<<CatWord>>].next) = {SatWord, End}

\* both engines of the comparison have returned from the same call
TwinsReturned ==
    /\ pc = "returned"
    /\ rng # <<>>
    /\ response # NoCall
    /\ twin.response # NoCall

\* C12 (the claim as stated): two engines with the same generator seed, the
\* same store contents and the same configuration return identical outputs
\* for the same call, whatever the iteration order of each engine's map.
TwinsReturnIdenticalOutputs ==
    TwinsReturned => twin.response = response

\* a neighbour list holds no element twice and no count below 1
WellFormedList(list) ==
    /\ \A i, j \in 1..Len(list) : list[i][1] = list[j][1] => i = j
    /\ \A i \in 1..Len(list) : list[i][2] >= 1

\* C13: in every reachable store each prev list and each next list holds any
\* given element at most once, and every recorded count is at least 1.
NeighbourListsWellFormed ==
    \A s \in DOMAIN state_transitions :
        /\ WellFormedList(state_transitions[s].prev)
        /\ WellFormedList(state_transitions[s].next)

\* C13 witness: the word cat was seen three times with two different
\* successors, one of them twice
RepeatedNeighbourCounted ==
    /\ ingested = <<<<LineCatCat, 1>>, <<LineCat, 1>>>>
    /\ state_transitions[<<CatWord>>].next = <<<<CatWord, 1>>, <<End, 2>>>>
    /\ state_transitions[<<CatWord>>].prev = <<<<Start, 2>>, <<CatWord, 1>>>>

\* the direction of the extension loop in progress
Walking == IF Head(sentence) # Start THEN "Backward" ELSE "Forward"

\* both extension loops of the call in progress are over
LoopsOver == Head(sentence) = Start /\ sentence[Len(sentence)] = End

\* the min(L, length) elements at the front (backward) or at the back
\* (forward) of the sentence
ContextOf(L) ==
    LET n == IF L < Len(sentence) THEN L ELSE Len(sentence)
    IN  IF Walking = "Backward"
        THEN SubSeq(sentence, 1, n)
        ELSE SubSeq(sentence, Len(sentence) - n + 1, Len(sentence))

\* the candidate lengths of [min, max) whose lookup succeeds
MatchingLengths ==
    {L \in 0..MaxGenSize :
        /\ config.min_generation_state_size <= L
        /\ L < config.max_generation_state_size
        /\ ContextOf(L) \in DOMAIN state_transitions}

ShortestMatch == CHOOSE L \in MatchingLengths : \A K \in MatchingLengths : L <= K

\* the elements with a positive count in the list, for the walking
\* direction, of the State found for length L
PositiveNeighbours(L) ==
    LET transition == state_transitions[ContextOf(L)]
        list == IF Walking = "Backward" THEN transition.prev ELSE transition.next
    IN  {e \in ElementsIn(list) : CountIn(list, e) > 0}

NoContextMatches == pc = "extending" /\ ~LoopsOver /\ MatchingLengths = {}

\* C15: when no candidate length of [min_generation_state_size,
\* max_generation_state_size) finds a stored State (the empty range
\* included), the next backward element is Start and the next forward element
\* is End, and the step that adds it ends that side of the extension.
BoundaryFallback ==
    /\ [](NoContextMatches =>
            NextTurn = {IF Walking = "Backward" THEN Start ELSE End})
    /\ [][(NoContextMatches /\ sentence' # sentence) =>
            IF Walking = "Backward"
            THEN sentence' = <<Start>> \o sentence
            ELSE sentence' = Append(sentence, End) /\ LoopsOver']_vars

\* C15 witness: with an empty range of lengths the walk from the seed "the"
\* closed the sentence at once on both sides, although the store has cat, not
\* End, after the
FellBackToBoundary ==
    /\ pc = "extending"
    /\ get_state_range(config) = {}
    /\ entry = CatStore
    /\ sentence = <<Start, TheWord, End>>
    /\ ElementsIn(state_transitions[<<TheWord>>].next) = {CatWord}

\* the sentences the walk in progress can get to in one turn
WalkSuccessors(sent) ==
    IF Head(sent) # Start
    THEN {TwoEnds(<<e>> \o sent) :
            e \in get_element(state_transitions, config, "Backward", sent) \ {ChoosePanic}}
    ELSE IF sent[Len(sent)] # End
    THEN {TwoEnds(Append(sent, e)) :
            e \in get_element(state_transitions, config, "Forward", sent) \ {ChoosePanic}}
    ELSE {}

\* the sentences the walk can get to from those of `seen`, those of
\* `frontier` being the ones not yet followed
RECURSIVE WalkClosure(_, _)
WalkClosure(seen, frontier) ==
    IF frontier = {}
    THEN seen
    ELSE LET new == (UNION {WalkSuccessors(sent) : sent \in frontier}) \ seen
         IN  WalkClosure(seen \cup new, new)

\* the walk in progress can still close the sentence with Start and End
BoundariesReachable ==
    \E sent \in WalkClosure({sentence}, {sentence}) :
        Head(sent) = Start /\ sent[Len(sent)] = End

\* C16: on a store built by ingestion, from every sentence the backward walk
\* can reach Start remains reachable and from every sentence the forward walk
\* can reach End remains reachable; under fair sampling both loops end and
\* the call returns.
BoundaryReachability ==
    /\ [](pc = "extending" => BoundariesReachable)
    /\ (pc = "extending") ~> (pc = "returned")

\* C16 witness: a call returned from a store in which cat follows cat, after
\* a walk that went round that cycle: its sentence has one more cat than the
\* line "Cat  Cat"
ReturnedFromCyclicStore ==
    /\ pc = "returned"
    /\ ingested = <<<<LineCatCat, 1>>>>
    /\ CatWord \in ElementsIn(entry[<<CatWord>>].prev)
    /\ get_state_range(config) = {1}
    /\ sentence = <<Start, CatWord, Gap("odd"), CatWord, End>>

\* C17 (the claim as stated): each extension loop has an iteration ceiling, so
\* a call that enters the loops returns after a bounded number of turns on
\* every store, whatever the generator draws, stores with cycles included.
LoopsHaveCeiling == (pc = "extending") ~> (pc = "returned")

\* the elements of a State
ElementsOf(state) == {state[i] : i \in 1..Len(state)}

\* the tokens of the input of the call in progress, as seeding splits it
InputTokens ==
    LET pieces == split(trim_end(input))
    IN  {pieces[i] : i \in 1..Len(pieces)}

\* the States of the store that hold a token of the input as a Word
StatesWithInputToken ==
    {state \in DOMAIN entry : \E token \in InputTokens : Word(token) \in ElementsOf(state)}

\* the call in progress has chosen its seed and has not extended it yet
SeedChosen == pc = "extending" /\ Len(sentence) = 1

\* C18: the seed element is an element of some State key of the store; when
\* some token of the input occurs as a Word in some State, the seed is an
\* element of a State that holds one of the input's tokens, so the choice in
\* the whole store is used only when no token occurs in any State.
SeedComesFromInput ==
    SeedChosen =>
        /\ \E state \in DOMAIN entry : sentence[1] \in ElementsOf(state)
        /\ StatesWithInputToken # {} =>
              \E state \in StatesWithInputToken : sentence[1] \in ElementsOf(state)

\* C18 witness: on the store of "the cat sat" the input "cat" gave the seed
\* the, an element of the State the cat, which holds the token
SeedFromStateOfToken ==
    /\ SeedChosen
    /\ entry = CatStore
    /\ input = LineCat
    /\ sentence[1] = TheWord
    /\ StatesWithInputToken = {<<CatWord>>, <<TheWord, CatWord>>, <<CatWord, SatWord>>}

\* the call in progress returned output
ReturnedOutput == pc = "returned" /\ response # None /\ response # NoCall

\* C19: when generation returns output, the sequence it built has exactly one
\* Start, at its first position, exactly one End, at its last position, and
\* no Placeholder; every element strictly between them is a Word that occurs
\* in some State key of the store, whichever element was the seed.
SentenceShape ==
    ReturnedOutput =>
        /\ Len(sentence) >= 2
        /\ \A i \in 1..Len(sentence) :
              /\ sentence[i] = Start <=> i = 1
              /\ sentence[i] = End <=> i = Len(sentence)
              /\ sentence[i] # Placeholder
        /\ \A i \in 2..(Len(sentence) - 1) :
              /\ IsWord(sentence[i])
              /\ \E state \in DOMAIN entry : sentence[i] \in ElementsOf(state)

\* C19 witness: a call with no input word in the store returned two words
\* between its markers
TwoWordsBetweenMarkers ==
    /\ ReturnedOutput
    /\ input = LineEmpty
    /\ sentence = <<Start, CatWord, CatWord, End>>
    /\ response = Some(<<"c", "a", "t", " ", "c", "a", "t">>)

\* C20: in a store built by ingestion the prev list of a State is empty only
\* if the State begins with Start and its next list is empty only if the
\* State ends with End; so the State matched by a turn of the backward
\* (forward) loop has a non-empty prev (next) list and the weighted choice of
\* get_element does not fail: the only panic of a call is the unwrap of
\* generate_bypass_checks on a None.
NoEmptyListSampling ==
    /\ \A s \in DOMAIN state_transitions :
          /\ state_transitions[s].prev = <<>> => s[1] = Start
          /\ state_transitions[s].next = <<>> => s[Len(s)] = End
    /\ (pc = "extending" /\ ~LoopsOver /\ MatchingLengths # {}) =>
          /\ PositiveNeighbours(ShortestMatch) # {}
          /\ ChoosePanic \notin NextTurn
    /\ pc = "panicked" => (bypass_checks /\ response = None)

\* C20 witness: a backward turn sampled from the prev list of the State
\* cat, in a store whose States beginning with Start have empty prev lists
SampledFromMatchedState ==
    /\ pc = "extending"
    /\ entry = CatStore
    /\ get_state_range(config) = {1, 2}
    /\ sentence = <<TheWord, CatWord>>
    /\ state_transitions[<<Start>>].prev = <<>>
    /\ state_transitions[<<Start, TheWord>>].prev = <<>>
    /\ state_transitions[<<SatWord, End>>].next = <<>>

\* the configurations with 1 <= min_generation_state_size <
\* max_generation_state_size and min_generation_state_size <=
\* max_ingestion_state_size
VariableOrderUsable ==
    /\ 1 <= config.min_generation_state_size
    /\ config.min_generation_state_size < config.max_generation_state_size
    /\ config.min_generation_state_size <= config.max_ingestion_state_size

\* a is immediately followed by b in the bracketed form of a line ingested
\* before the call in progress ran its own ingest
ObservedAdjacent(a, b) ==
    \E n \in 1..(Len(ingested) - ingest_runs) :
        LET b_line == Bracketed[ingested[n][1]]
        IN  \E i \in 1..(Len(b_line) - 1) : b_line[i] = a /\ b_line[i + 1] = b

\* C21: when 1 <= min_generation_state_size < max_generation_state_size and
\* min_generation_state_size <= max_ingestion_state_size, no turn of an
\* extension loop finds every lookup failing (the boundary fallback is not
\* used), and every two adjacent elements of the sentence being built or
\* returned, the pairs with Start and End included, are adjacent in that order
\* in some ingested line.
ObservedAdjacency ==
    (VariableOrderUsable /\ pc \in {"extending", "returned"} /\ sentence # <<>>) =>
        /\ ~NoContextMatches
        /\ \A i \in 1..(Len(sentence) - 1) :
              ObservedAdjacent(sentence[i], sentence[i + 1])

\* C21 witness: with states of sizes 1 and 2 ingested from "the cat sat" and
\* lookups of size 2 alone, the walk built the whole line between its markers
WalkedObservedLine ==
    /\ pc = "extending"
    /\ config.max_ingestion_state_size = 2
    /\ get_state_range(config) = {2}
    /\ ingested = <<<<LineTheCatSat, 2>>>>
    /\ sentence = CatSentence

\* the gates of _generate let the call in progress through
GatesOpen == bypass_checks \/ (~config.mute /\ config.reply_rate = 100)

\* the step is the start of a generation call
CallStarts == Ready /\ pc' # "idle"

\* the store held something before the call in progress ran its own ingest
LearnedBefore == Len(ingested) - ingest_runs > 0

InputIngestedBefore ==
    \E n \in 1..(Len(ingested) - ingest_runs) : ingested[n][1] = input

\* the words ingestion makes of the input of the call in progress
IngestedWordsOfInput ==
    LET words == Tokenize(input)
    IN  {words[i] : i \in 1..Len(words)}

\* C23 (the claim as stated): when the input line of a call holds at least
\* one word and had been ingested before, seeding finds a State that holds
\* one of the line's words, so the choice in the whole store is not used and
\* the seed is an element of a State that holds a word of the line.
SeedMatchesIngestedInput ==
    (SeedChosen /\ InputIngestedBefore /\ IngestedWordsOfInput # {}) =>
        /\ StatesWithInputToken # {}
        /\ \E state \in DOMAIN entry :
              /\ sentence[1] \in ElementsOf(state)
              /\ ElementsOf(state) \cap IngestedWordsOfInput # {}

====
